---- MODULE Spec2Model ----
(***************************************************************************)
(* A model of the subgraph sampling engine (SubgraphSampler), of the      *)
(* connection handling of get_entity_embedding, and of the path finder    *)
(* (PathFinder.find_paths_bfs, find_multihop_relationships) of            *)
(* nebula-siwi-pyg.                                                       *)
(*                                                                         *)
(* Python indices are 0-based.  A Python list is modelled as a TLA+       *)
(* sequence, so the element of index i is the (i+1)-th of the sequence.   *)
(* A Python dict is a function whose DOMAIN is the set of its keys.       *)
(***************************************************************************)
EXTENDS Integers, Sequences, FiniteSets, TLC

VARIABLES threads, inputs, call, self, pool, reg, bfs, mh, store, n2t

vars == <<threads, inputs, call, self, pool, reg, bfs, mh, store, n2t>>

(***************************************************************************)
(* Bounds of the model and the small sets the inputs are drawn from.      *)
(***************************************************************************)
\* rows the adapter delivers to one sample_subgraph call at most
MaxRows == 3
\* largest node budget (max_nodes) a caller passes
MaxBudget == 3
\* calls to _get_vid_idx in one registry session
MaxRegCalls == 4
\* entries of the edge_index of a subgraph handed to find_paths_bfs
MaxEdges == 4
\* the same, where the search is followed to its end under fairness
MaxFairEdges == 3
\* largest max_hops handed to find_paths_bfs
MaxBfsHops == 3
\* longest frontier of find_paths_bfs the model follows
MaxQueue == 40
\* rows delivered to the sample_subgraph call around entity A, around entity B
MaxRowsA == 2
MaxRowsB == 4
\* get_nebula_connection_pool calls made until a store is constructed
MaxPoolCalls == 3
\* reads of a store that go to the remote graph
MaxRemote == 2
\* the calls made on one NebulaToTorch object
MaxLoaderCalls == 3

Threads == {1, 2}
Vids == {"p0", "p1", "t0"}
\* the hop counts a caller passes; more than 2 hops selects GET SUBGRAPH
SampleHops == {0, 1, 2, 3}
EdgeTypes == {"follow", "serve"}

\* the (src, dst, edge_type) rows the remote graph may deliver
RowUniverse ==
  { <<"p0", "p1", "follow">>, <<"p1", "p0", "follow">>,
    <<"p0", "t0", "serve">>,  <<"p1", "t0", "serve">>,
    <<"p0", "p1", "serve">> }

\* labels(v)[0] of a vertex of the remote graph
TypeOf(v) == IF v \in {"t0", "t1"} THEN "team" ELSE "player"

\* config.max_connection_pool_size
PoolSize == 10

(***************************************************************************)
(* Dict helpers.                                                           *)
(***************************************************************************)
EmptyMap == [x \in {} |-> x]

MapPut(f, k, v) == [x \in (DOMAIN f) \cup {k} |-> IF x = k THEN v ELSE f[x]]

SeqRange(s) == {s[i] : i \in 1..Len(s)}

(***************************************************************************)
(* SubgraphSampler: the four instance attributes, as __init__ and the     *)
(* reset at the start of sample_subgraph set them.                        *)
(***************************************************************************)
FreshSampler ==
  [vid_to_idx   |-> EmptyMap,
   idx_to_vid   |-> <<>>,
   edge_indices |-> EmptyMap,
   node_types   |-> EmptyMap]

\* _get_vid_idx with the index of a new vid one too high
GetVidIdxOffByOne(s, vid) ==
  IF vid \notin DOMAIN s.vid_to_idx
    THEN [s EXCEPT !.vid_to_idx = MapPut(@, vid, Len(s.idx_to_vid) + 1),
                   !.idx_to_vid = Append(@, vid)]
    ELSE s

\* _get_vid_idx without the membership test: every call appends
GetVidIdxAlwaysNew(s, vid) ==
  [s EXCEPT !.vid_to_idx = MapPut(@, vid, Len(s.idx_to_vid)),
            !.idx_to_vid = Append(@, vid)]

\* _get_vid_idx: the sampler after the call
GetVidIdx(s, vid) ==
  IF vid \notin DOMAIN s.vid_to_idx
    THEN [s EXCEPT !.vid_to_idx = MapPut(@, vid, Len(s.idx_to_vid)),
                   !.idx_to_vid = Append(@, vid)]
    ELSE s

\* _get_vid_idx: the value it returns
GetVidIdxResult(s, vid) == GetVidIdx(s, vid).vid_to_idx[vid]

\* the append of an edge with the reverse edge never added
EmitEdgeForwardOnly(edge_list, src_idx, dst_idx, bidirectional) ==
  Append(edge_list, <<src_idx, dst_idx>>)

\* _create_edge_index, the two appends of one edge to its type's list
EmitEdge(edge_list, src_idx, dst_idx, bidirectional) ==
  IF bidirectional
    THEN Append(Append(edge_list, <<src_idx, dst_idx>>), <<dst_idx, src_idx>>)
    ELSE Append(edge_list, <<src_idx, dst_idx>>)

\* _create_edge_index, the loop over the edges; acc holds the sampler, the
\* keys of edge_indices_by_type in insertion order and its lists
RECURSIVE EdgeLoop(_, _, _, _)
EdgeLoop(acc, edges, i, bidirectional) ==
  IF i > Len(edges) THEN acc
  ELSE
    LET e       == edges[i]
        s1      == GetVidIdx(acc.s, e[1])
        src_idx == GetVidIdxResult(acc.s, e[1])
        s2      == GetVidIdx(s1, e[2])
        dst_idx == GetVidIdxResult(s1, e[2])
        isNew   == e[3] \notin DOMAIN acc.lists
        old     == IF isNew THEN <<>> ELSE acc.lists[e[3]]
    IN EdgeLoop([s     |-> s2,
                 order |-> IF isNew THEN Append(acc.order, e[3]) ELSE acc.order,
                 lists |-> MapPut(acc.lists, e[3],
                                  EmitEdge(old, src_idx, dst_idx, bidirectional))],
                edges, i + 1, bidirectional)

\* the concatenation of the per-type lists in insertion order
RECURSIVE Flatten(_, _, _)
Flatten(order, lists, i) ==
  IF i > Len(order) THEN <<>>
  ELSE lists[order[i]] \o Flatten(order, lists, i + 1)

\* _create_edge_index: [s: the sampler after the call, edge_index: its value]
CreateEdgeIndex(s, edges, bidirectional) ==
  IF edges = <<>> THEN [s |-> s, edge_index |-> <<>>]
  ELSE
    LET acc == EdgeLoop([s |-> s, order |-> <<>>, lists |-> EmptyMap],
                        edges, 1, bidirectional)
        stored == [t \in (DOMAIN acc.s.edge_indices) \cup (DOMAIN acc.lists) |->
                     IF t \in DOMAIN acc.lists THEN acc.lists[t]
                     ELSE acc.s.edge_indices[t]]
    IN [s |-> [acc.s EXCEPT !.edge_indices = stored],
        edge_index |-> Flatten(acc.order, acc.lists, 1)]

(***************************************************************************)
(* The remote graph's facts the adapter reads.                            *)
(***************************************************************************)
\* whether properties(vertex).embedding1 of v is non-empty
RemoteHasEmbedding(v) == v # "t0"

\* the value of properties(vertex).embedding1 of v
RemoteEmbedding(v) == IF v = "p0" THEN 3 ELSE IF v = "p1" THEN 2 ELSE 0

\* the type the value is stored with: the sampler reads both (lines 307-314)
RemoteEmbeddingKind(v) == IF v = "p1" THEN "int" ELSE "double"

(***************************************************************************)
(* One call of sample_subgraph or get_entity_embedding on a thread: its   *)
(* arguments, its locals and its position.  attempts, acquired and        *)
(* released count the call's get_session calls, the sessions they         *)
(* returned and its session.release() calls; used tells that the thread   *)
(* has made the one call it makes when inputs.once holds.  exc tells that *)
(* the adapter threw an exception into the call; failed holds the kinds   *)
(* of query that reported failure (is_succeeded() false, or a labels      *)
(* query without rows), kept when inputs.track holds.                     *)
(***************************************************************************)
NoResult ==
  [valid |-> FALSE, center_node_idx |-> 0, edge_index |-> <<>>, num_nodes |-> 0,
   vid_to_idx |-> EmptyMap, idx_to_vid |-> <<>>, node_types |-> EmptyMap,
   edge_indices_by_type |-> EmptyMap, node_features |-> EmptyMap]

IdleCall ==
  [pc |-> "idle", center |-> "p0", n_hops |-> 0, max_nodes |-> 1, bidir |-> TRUE,
   session |-> FALSE, hop |-> 0, rows_left |-> 0, nodes |-> {}, edges |-> <<>>,
   dst |-> "p0", edge_index |-> <<>>, batches |-> EmptyMap, features |-> EmptyMap,
   result |-> NoResult, outcome |-> "return", emb |-> "none",
   attempts |-> 0, acquired |-> 0, released |-> 0, used |-> FALSE,
   exc |-> FALSE, failed |-> {}]

\* an exception thrown by session.execute inside the try block: the call
\* leaves through the finally block
Raise(c) == [c EXCEPT !.pc = "finally", !.outcome = "raise", !.exc = TRUE]

\* a query of this kind reported failure
NoteFailed(c, kind) ==
  IF inputs.track THEN [c EXCEPT !.failed = @ \cup {kind}] ELSE c

\* a failed GO query ending the call as an exception would
HopFailedRaises(c) == [c EXCEPT !.pc = "finally", !.outcome = "raise"]

\* lines 105-113: resp.is_succeeded() is false, the loop goes to the next hop
\* without the test of line 138
HopFailed(c) ==
  IF c.hop + 1 > c.n_hops
    THEN [c EXCEPT !.pc = "edge_index"]
    ELSE [c EXCEPT !.hop = c.hop + 1]

\* the limit test of lines 134 and 138 with > for >=
BudgetReachedStrict(nodes, max_nodes) == Cardinality(nodes) > max_nodes

\* len(nodes) >= max_nodes (lines 134, 138, 189)
BudgetReached(nodes, max_nodes) == Cardinality(nodes) >= max_nodes

\* _get_subgraph_using_go, the end of one hop's rows (lines 137-139) and the
\* step of the hop loop
EndOfHop(c) ==
  IF BudgetReached(c.nodes, c.max_nodes) \/ c.hop + 1 > c.n_hops
    THEN [c EXCEPT !.pc = "edge_index", !.rows_left = 0]
    ELSE [c EXCEPT !.pc = "hop", !.hop = c.hop + 1, !.rows_left = 0]

\* _get_subgraph_using_go, after one row (lines 133-135): break, next row or
\* end of the rows
AfterRow(c) ==
  IF BudgetReached(c.nodes, c.max_nodes)
    THEN [c EXCEPT !.pc = "edge_index", !.rows_left = 0]
    ELSE IF c.rows_left = 0 THEN EndOfHop(c)
    ELSE [c EXCEPT !.pc = "rows"]

\* the node type a labels(v) query stores (lines 99-102, 128-131)
StoreType(types, vid, outcome) ==
  IF outcome = "label" THEN MapPut(types, vid, TypeOf(vid)) ELSE types

TypeOutcomes == {"fail", "empty", "label"}

\* _get_node_features, the grouping of the vids by node type (lines 267-277),
\* the group 'unknown' left out
GroupByType(nodes, types) ==
  LET known == {v \in nodes : v \in DOMAIN types}
  IN [ty \in {types[v] : v \in known} |-> {v \in known : types[v] = ty}]

\* _get_node_features, the rows of one FETCH PROP response (lines 293-317)
StoreFeatures(features, rows) ==
  [v \in (DOMAIN features) \cup rows |->
     IF v \in rows
       THEN [name |-> v, has_embedding |-> RemoteHasEmbedding(v),
             embedding |-> IF RemoteHasEmbedding(v) THEN RemoteEmbedding(v) ELSE 0]
       ELSE features[v]]

\* sample_subgraph, the result dictionary (lines 72-81)
BuildResult(s, c) ==
  [valid |-> TRUE,
   center_node_idx |-> IF c.center \in DOMAIN s.vid_to_idx
                         THEN s.vid_to_idx[c.center] ELSE 0,
   edge_index |-> c.edge_index,
   num_nodes |-> Len(s.idx_to_vid),
   vid_to_idx |-> s.vid_to_idx,
   idx_to_vid |-> s.idx_to_vid,
   node_types |-> s.node_types,
   edge_indices_by_type |-> s.edge_indices,
   node_features |-> c.features]

\* the finally block releasing only when the call returns normally
ReleaseOnReturnOnly(c) ==
  IF c.outcome = "return"
    THEN [c EXCEPT !.session = FALSE, !.released = c.released + 1]
    ELSE c

\* finally: session.release() (lines 85-86)
Release(c) == [c EXCEPT !.session = FALSE, !.released = c.released + 1]

(***************************************************************************)
(* sample_subgraph, step by step.  A step ends where the code waits for   *)
(* the remote graph or between two calls of the sampler's own methods,    *)
(* the places at which another thread may run.                            *)
(***************************************************************************)
\* lines 45-49: the reset of the sampler's state
Begin(t) ==
  /\ call[t].pc = "idle"
  /\ ~call[t].used
  /\ \E center \in inputs.centers, n_hops \in inputs.hops,
        max_nodes \in inputs.budgets, bidir \in inputs.bidir :
       call' = [call EXCEPT ![t] =
                  [IdleCall EXCEPT !.pc = "get_session", !.center = center,
                                   !.n_hops = n_hops, !.max_nodes = max_nodes,
                                   !.bidir = bidir, !.nodes = {center},
                                   !.used = inputs.once]]
  /\ self' = FreshSampler
  /\ UNCHANGED <<n2t, store, bfs, mh, threads, inputs, pool, reg>>

\* line 52: get_session returns a session, or raises before the try block
GetSession(t) ==
  /\ call[t].pc = "get_session"
  /\ \/ /\ pool.out < PoolSize
        /\ pool' = [pool EXCEPT !.out = pool.out + 1]
        /\ call' = [call EXCEPT ![t].pc = "use", ![t].session = TRUE,
                                ![t].attempts = call[t].attempts + 1,
                                ![t].acquired = call[t].acquired + 1]
     \/ /\ call' = [call EXCEPT ![t].pc = "raised", ![t].outcome = "raise",
                                ![t].exc = TRUE,
                                ![t].attempts = call[t].attempts + 1]
        /\ pool' = pool
  /\ UNCHANGED <<n2t, store, bfs, mh, threads, inputs, self, reg>>

\* line 55: USE space, then the choice of the strategy (line 58)
Use(t) ==
  /\ call[t].pc = "use"
  /\ \/ call' = [call EXCEPT ![t].pc =
                   IF call[t].n_hops <= 2 THEN "center_type" ELSE "bulk"]
     \/ call' = [call EXCEPT ![t] = Raise(call[t])]
  /\ UNCHANGED <<n2t, store, bfs, mh, threads, inputs, self, pool, reg>>

\* lines 96-102: the type of the center node
CenterType(t) ==
  /\ call[t].pc = "center_type"
  /\ \/ \E o \in TypeOutcomes :
          /\ self' = [self EXCEPT !.node_types = StoreType(@, call[t].center, o)]
          /\ call' = [call EXCEPT ![t] =
                        [(IF o = "label" THEN call[t] ELSE NoteFailed(call[t], "type"))
                           EXCEPT !.pc = IF call[t].n_hops >= 1 THEN "hop"
                                         ELSE "edge_index",
                                  !.hop = 1]]
     \/ /\ call' = [call EXCEPT ![t] = Raise(call[t])]
        /\ self' = self
  /\ UNCHANGED <<n2t, store, bfs, mh, threads, inputs, pool, reg>>

\* lines 105-113: the GO query of one hop
HopQuery(t) ==
  /\ call[t].pc = "hop"
  /\ \/ \* the query failed
        call' = [call EXCEPT ![t] =
                   HopFailed(NoteFailed(call[t],
                                        IF call[t].hop = 1 THEN "hop1" ELSE "hop2"))]
     \/ \E n \in 0..(inputs.rows - Len(call[t].edges)) :
          call' = [call EXCEPT ![t] =
                     IF n = 0 THEN EndOfHop(call[t])
                     ELSE [call[t] EXCEPT !.pc = "rows", !.rows_left = n]]
     \/ call' = [call EXCEPT ![t] = Raise(call[t])]
  /\ UNCHANGED <<n2t, store, bfs, mh, threads, inputs, self, pool, reg>>

\* lines 114-125: one row of a GO response
GoRow(t) ==
  /\ call[t].pc = "rows"
  /\ \/ \E row \in inputs.universe :
          LET c == [call[t] EXCEPT !.nodes = @ \cup {row[1], row[2]},
                                   !.edges = Append(@, row),
                                   !.rows_left = @ - 1,
                                   !.dst = row[2]]
          IN call' = [call EXCEPT ![t] =
                        IF row[2] \notin DOMAIN self.node_types
                          THEN [c EXCEPT !.pc = "dst_type"]
                          ELSE AfterRow(c)]
     \/ call' = [call EXCEPT ![t] = Raise(call[t])]
  /\ UNCHANGED <<n2t, store, bfs, mh, threads, inputs, self, pool, reg>>

\* lines 126-135: the type of the row's target node, then the limit test
DstType(t) ==
  /\ call[t].pc = "dst_type"
  /\ \/ \E o \in TypeOutcomes :
          /\ self' = [self EXCEPT !.node_types = StoreType(@, call[t].dst, o)]
          /\ call' = [call EXCEPT ![t] =
                        AfterRow(IF o = "label" THEN call[t]
                                 ELSE NoteFailed(call[t], "type"))]
     \/ /\ call' = [call EXCEPT ![t] = Raise(call[t])]
        /\ self' = self
  /\ UNCHANGED <<n2t, store, bfs, mh, threads, inputs, pool, reg>>

\* lines 152-160: the GET SUBGRAPH query
BulkQuery(t) ==
  /\ call[t].pc = "bulk"
  /\ \/ \E n \in 0..(inputs.rows - Len(call[t].edges)) :
          call' = [call EXCEPT ![t] =
                     IF n = 0 THEN [call[t] EXCEPT !.pc = "edge_index"]
                     ELSE [call[t] EXCEPT !.pc = "bulk_rows", !.rows_left = n]]
     \/ \* the query failed
        call' = [call EXCEPT ![t] =
                   [NoteFailed(call[t], "bulk") EXCEPT !.pc = "edge_index"]]
     \/ call' = [call EXCEPT ![t] = Raise(call[t])]
  /\ UNCHANGED <<n2t, store, bfs, mh, threads, inputs, self, pool, reg>>

\* lines 163-190: one row of a GET SUBGRAPH response; vs holds the row's
\* vertex and es its edge, when it has one
BulkRow(t) ==
  /\ call[t].pc = "bulk_rows"
  /\ \/ \E vs \in {{}} \cup {{v} : v \in Vids},
           es \in {{}} \cup {{e} : e \in inputs.universe} :
          LET nodes == call[t].nodes \cup vs \cup {e[1] : e \in es}
                                     \cup {e[2] : e \in es}
              edges == IF es = {} THEN call[t].edges
                       ELSE Append(call[t].edges, CHOOSE e \in es : TRUE)
              left  == call[t].rows_left - 1
          IN /\ self' = [self EXCEPT !.node_types =
                           [v \in (DOMAIN @) \cup vs |->
                              IF v \in vs THEN TypeOf(v) ELSE @[v]]]
             /\ call' = [call EXCEPT ![t].nodes = nodes, ![t].edges = edges,
                           ![t].rows_left =
                             IF BudgetReached(nodes, call[t].max_nodes)
                               THEN 0 ELSE left,
                           ![t].pc =
                             IF BudgetReached(nodes, call[t].max_nodes) \/ left = 0
                               THEN "edge_index" ELSE "bulk_rows"]
     \/ /\ call' = [call EXCEPT ![t] = Raise(call[t])]
        /\ self' = self
  /\ UNCHANGED <<n2t, store, bfs, mh, threads, inputs, pool, reg>>

\* line 66 and lines 264-272: _create_edge_index, then the grouping of the
\* nodes by type at the start of _get_node_features
EdgeIndexStep(t) ==
  /\ call[t].pc = "edge_index"
  /\ LET r == CreateEdgeIndex(self, call[t].edges, call[t].bidir)
     IN /\ self' = r.s
        /\ call' = [call EXCEPT ![t].pc = "features",
                                ![t].edge_index = r.edge_index,
                                ![t].batches =
                                  GroupByType(call[t].nodes, self.node_types)]
  /\ UNCHANGED <<n2t, store, bfs, mh, threads, inputs, pool, reg>>

\* lines 275-317: the FETCH PROP query of one node type
FeatureQuery(t) ==
  /\ call[t].pc = "features"
  /\ \E ty \in DOMAIN call[t].batches :
       LET rest == [x \in (DOMAIN call[t].batches) \ {ty} |-> call[t].batches[x]]
       IN \/ \* the query failed or returned no rows
             call' = [call EXCEPT ![t] =
                        [NoteFailed(call[t], "props") EXCEPT !.batches = rest]]
          \/ call' = [call EXCEPT ![t].batches = rest,
                         ![t].features = StoreFeatures(@, call[t].batches[ty])]
          \/ call' = [call EXCEPT ![t] = Raise(call[t])]
  /\ UNCHANGED <<n2t, store, bfs, mh, threads, inputs, self, pool, reg>>

\* lines 71-83: the result dictionary
Build(t) ==
  /\ call[t].pc = "features"
  /\ DOMAIN call[t].batches = {}
  /\ call' = [call EXCEPT ![t].pc = "finally", ![t].outcome = "return",
                          ![t].result = BuildResult(self, call[t])]
  /\ UNCHANGED <<n2t, store, bfs, mh, threads, inputs, self, pool, reg>>

\* lines 85-86: finally, on the way out of the try block
Finally(t) ==
  /\ call[t].pc = "finally"
  /\ pool' = [pool EXCEPT !.out =
                 pool.out - (Release(call[t]).released - call[t].released)]
  /\ call' = [call EXCEPT ![t] =
                [Release(call[t]) EXCEPT !.pc =
                   IF call[t].outcome = "return" THEN "returned" ELSE "raised"]]
  /\ UNCHANGED <<n2t, store, bfs, mh, threads, inputs, self, reg>>

\* the caller takes the result, or the exception, and the call is over
Done(t) ==
  /\ call[t].pc \in {"returned", "raised", "emb_returned"}
  /\ call' = [call EXCEPT ![t] = [IdleCall EXCEPT !.used = call[t].used]]
  /\ UNCHANGED <<n2t, store, bfs, mh, threads, inputs, self, pool, reg>>

(***************************************************************************)
(* get_entity_embedding (feature_store.py), step by step.                 *)
(***************************************************************************)
\* lines 36-37: the pool, session = None
EmbBegin(t) ==
  /\ call[t].pc = "idle"
  /\ ~call[t].used
  /\ call' = [call EXCEPT ![t] = [IdleCall EXCEPT !.pc = "emb_get_session"]]
  /\ UNCHANGED <<n2t, store, bfs, mh, threads, inputs, self, pool, reg>>

\* line 39: get_session inside the try block; an exception leaves session None
EmbGetSession(t) ==
  /\ call[t].pc = "emb_get_session"
  /\ \/ /\ pool.out < PoolSize
        /\ pool' = [pool EXCEPT !.out = pool.out + 1]
        /\ call' = [call EXCEPT ![t].pc = "emb_use", ![t].session = TRUE,
                                ![t].attempts = call[t].attempts + 1,
                                ![t].acquired = call[t].acquired + 1]
     \/ /\ call' = [call EXCEPT ![t].pc = "emb_finally",
                                ![t].attempts = call[t].attempts + 1]
        /\ pool' = pool
  /\ UNCHANGED <<n2t, store, bfs, mh, threads, inputs, self, reg>>

\* line 40: USE space; an exception is caught at line 57
EmbUse(t) ==
  /\ call[t].pc = "emb_use"
  /\ \/ call' = [call EXCEPT ![t].pc = "emb_query"]
     \/ call' = [call EXCEPT ![t].pc = "emb_finally"]
  /\ UNCHANGED <<n2t, store, bfs, mh, threads, inputs, self, pool, reg>>

\* lines 42-59: the FETCH PROP query and the value returned; "none" is None
EmbQuery(t) ==
  /\ call[t].pc = "emb_query"
  /\ \E o \in {"fail", "no_rows", "empty", "value", "raise"} :
       call' = [call EXCEPT ![t].pc = "emb_finally",
                            ![t].emb = IF o = "value" THEN "value" ELSE "none"]
  /\ UNCHANGED <<n2t, store, bfs, mh, threads, inputs, self, pool, reg>>

\* the finally block without the test of session
EmbReleaseAlways(c) == [c EXCEPT !.session = FALSE, !.released = c.released + 1]

\* lines 60-62: finally, if session: session.release()
EmbRelease(c) ==
  IF c.session
    THEN [c EXCEPT !.session = FALSE, !.released = c.released + 1]
    ELSE c

EmbFinally(t) ==
  /\ call[t].pc = "emb_finally"
  /\ pool' = [pool EXCEPT !.out =
                 pool.out - (EmbRelease(call[t]).released - call[t].released)]
  /\ call' = [call EXCEPT ![t] = [EmbRelease(call[t]) EXCEPT !.pc = "emb_returned"]]
  /\ UNCHANGED <<n2t, store, bfs, mh, threads, inputs, self, reg>>

(***************************************************************************)
(* The ID registry on its own: one sampling session, a sequence of        *)
(* _get_vid_idx calls.  reg.log holds each call's vid and returned index. *)
(***************************************************************************)
RegCall ==
  /\ Len(reg.log) < MaxRegCalls
  /\ \E vid \in Vids :
       reg' = [s   |-> GetVidIdx(reg.s, vid),
               log |-> Append(reg.log, <<vid, GetVidIdxResult(reg.s, vid)>>)]
  /\ UNCHANGED <<n2t, store, bfs, mh, threads, inputs, call, self, pool>>

(***************************************************************************)
(* PathFinder.find_paths_bfs (mvp_qa_system.py).  A subgraph is the       *)
(* dictionary sample_subgraph returns; st holds queue, visited and paths, *)
(* and in late the vertices appended to a path of more than 2 vertices,   *)
(* in the order of their appending.                                        *)
(***************************************************************************)
\* the cap of the while loop (line 134)
PathCap == 5

\* the leniency of line 146: paths of at most this many vertices may revisit
ShortPath == 2

\* lines 125-131: the neighbours of src in the order of edge_index
RECURSIVE DstsOf(_, _, _)
DstsOf(edge_index, src, i) ==
  IF i > Len(edge_index) THEN <<>>
  ELSE (IF edge_index[i][1] = src THEN <<edge_index[i][2]>> ELSE <<>>)
         \o DstsOf(edge_index, src, i + 1)

\* lines 121-131 and 145: adj_list.get(current_idx, [])
Neighbours(edge_index, current_idx) == DstsOf(edge_index, current_idx, 1)

\* lines 113-115: the queue, visited and paths before the loop
BfsStart(sg, start_entity) ==
  [queue   |-> <<[idx |-> sg.vid_to_idx[start_entity], path |-> <<start_entity>>]>>,
   visited |-> {sg.vid_to_idx[start_entity]},
   paths   |-> <<>>,
   late    |-> <<>>]

\* the loop condition without the cap on the paths
ContinueSearchNoCap(st) == st.queue # <<>>

\* line 134: while queue and len(paths) < 5
ContinueSearch(st) == st.queue # <<>> /\ Len(st.paths) < PathCap

\* the length test one vertex too lenient
TooLongOffByOne(path, max_hops) == Len(path) > max_hops + 2

\* the length test one vertex too strict
TooLongStrict(path, max_hops) == Len(path) > max_hops

\* line 137: len(path) > max_hops + 1
TooLong(path, max_hops) == Len(path) > max_hops + 1

\* the test of line 146 always true
MayExtendAlways(neighbor_idx, visited, path) == TRUE

\* the test of line 146 without the visited set: short paths only
MayExtendShortOnly(neighbor_idx, visited, path) == Len(path) <= ShortPath

\* line 146: neighbor_idx not in visited or len(path) <= 2
MayExtend(neighbor_idx, visited, path) ==
  neighbor_idx \notin visited \/ Len(path) <= ShortPath

\* the marking of lines 151-152 left out
MarkVisitedNever(visited, neighbor_idx, path) == visited

\* lines 151-152: if len(path) > 2: visited.add(neighbor_idx)
MarkVisited(visited, neighbor_idx, path) ==
  IF Len(path) > ShortPath THEN visited \cup {neighbor_idx} ELSE visited

\* the head of the queue read but left in the queue
DequeueKeepsHead(queue) == queue

\* line 135: the queue after popleft()
Dequeue(queue) == Tail(queue)

\* lines 145-152: the loop over the neighbours of the current vertex
RECURSIVE Expand(_, _, _, _, _)
Expand(st, sg, path, neighbours, i) ==
  IF i > Len(neighbours) THEN st
  ELSE
    LET neighbor_idx == neighbours[i]
    IN IF MayExtend(neighbor_idx, st.visited, path)
         THEN Expand([st EXCEPT
                        !.queue = Append(@, [idx  |-> neighbor_idx,
                                             path |-> Append(path,
                                                       sg.idx_to_vid[neighbor_idx + 1])]),
                        !.visited = MarkVisited(@, neighbor_idx, path),
                        !.late = IF Len(path) > ShortPath
                                   THEN Append(@, neighbor_idx) ELSE @],
                     sg, path, neighbours, i + 1)
         ELSE Expand(st, sg, path, neighbours, i + 1)

\* lines 135-152: one iteration of the while loop
BfsIterate(st, sg, end_idx, max_hops) ==
  LET head == Head(st.queue)
      st1  == [st EXCEPT !.queue = Dequeue(st.queue)]
  IN IF TooLong(head.path, max_hops) THEN st1
     ELSE IF head.idx = end_idx
       THEN [st1 EXCEPT !.paths = Append(@, head.path)]
     ELSE Expand(st1, sg, head.path, Neighbours(sg.edge_index, head.idx), 1)

\* lines 133-154: the while loop, run to its end
RECURSIVE BfsLoop(_, _, _, _)
BfsLoop(st, sg, end_idx, max_hops) ==
  IF ContinueSearch(st)
    THEN BfsLoop(BfsIterate(st, sg, end_idx, max_hops), sg, end_idx, max_hops)
    ELSE st.paths

\* the early returns with the test of the end vertex left out
AbsentStartOnly(sg, start_entity, end_entity) ==
  start_entity \notin DOMAIN sg.vid_to_idx

\* lines 104-107: the early returns of find_paths_bfs
Absent(sg, start_entity, end_entity) ==
  start_entity \notin DOMAIN sg.vid_to_idx \/ end_entity \notin DOMAIN sg.vid_to_idx

\* find_paths_bfs, its value
FindPathsBfs(sg, start_entity, end_entity, max_hops) ==
  IF Absent(sg, start_entity, end_entity) THEN <<>>
  ELSE BfsLoop(BfsStart(sg, start_entity), sg, sg.vid_to_idx[end_entity], max_hops)

(***************************************************************************)
(* One find_paths_bfs call, step by step, on a subgraph of the vertices   *)
(* inputs.bfs.vids with any edge_index of at most inputs.edges entries,   *)
(* or on the empty subgraph.  adj_list keeps, for every source, its       *)
(* entries in the order of edge_index, so the edge_index is drawn with    *)
(* its entries grouped by source.  X is a vid no subgraph holds.          *)
(***************************************************************************)
BfsVids == <<"A", "B", "C">>

\* a subgraph of one vertex more, for the paths of three hops
DeepVids == <<"A", "B", "C", "D">>

SeqsUpTo(S, n) == UNION {[1..k -> S] : k \in 0..n}

BfsEdgeLists(pairs, n) ==
  {e \in SeqsUpTo(pairs, n) :
     \A i \in 1..(Len(e) - 1) : e[i][1] <= e[i + 1][1]}

BfsSubgraph(vids, edge_index) ==
  [vid_to_idx |-> [v \in SeqRange(vids) |->
                     (CHOOSE i \in 1..Len(vids) : vids[i] = v) - 1],
   idx_to_vid |-> vids,
   edge_index |-> edge_index]

NoSubgraph == [vid_to_idx |-> EmptyMap, idx_to_vid |-> <<>>, edge_index |-> <<>>]

BfsIdle ==
  [pc |-> "idle", sg |-> NoSubgraph, start |-> "A", end |-> "A", max_hops |-> 0,
   st |-> [queue |-> <<>>, visited |-> {}, paths |-> <<>>, late |-> <<>>]]

\* lines 101-131: the call, its early returns and the set-up of the search
BfsCall ==
  /\ bfs.pc = "idle"
  /\ mh.pc = "idle"
  /\ \E edge_index \in BfsEdgeLists(inputs.bfs.pairs, inputs.edges),
        start \in inputs.bfs.starts, end \in inputs.bfs.ends,
        max_hops \in inputs.bfs.hops :
       \E sg \in {BfsSubgraph(inputs.bfs.vids, edge_index)} \cup
                    (IF edge_index = <<>> THEN {NoSubgraph} ELSE {}) :
         LET c == [BfsIdle EXCEPT !.sg = sg, !.start = start, !.end = end,
                                  !.max_hops = max_hops]
         IN bfs' = IF Absent(sg, start, end)
                     THEN [c EXCEPT !.pc = "done"]
                   ELSE IF {start, end} \subseteq DOMAIN sg.vid_to_idx
                     THEN [c EXCEPT !.pc = "search", !.st = BfsStart(sg, start)]
                   \* lines 109-110: KeyError
                   ELSE [c EXCEPT !.pc = "raised"]
  /\ UNCHANGED <<n2t, store, mh, threads, inputs, call, self, pool, reg>>

\* lines 134-152: one iteration of the while loop
BfsStep ==
  /\ bfs.pc = "search"
  /\ ContinueSearch(bfs.st)
  /\ Len(bfs.st.queue) <= MaxQueue
  /\ bfs' = [bfs EXCEPT !.st = BfsIterate(bfs.st, bfs.sg,
                                          bfs.sg.vid_to_idx[bfs.end], bfs.max_hops)]
  /\ UNCHANGED <<n2t, store, mh, threads, inputs, call, self, pool, reg>>

\* line 154: return paths
BfsReturn ==
  /\ bfs.pc = "search"
  /\ ~ContinueSearch(bfs.st)
  /\ bfs' = [bfs EXCEPT !.pc = "done"]
  /\ UNCHANGED <<n2t, store, mh, threads, inputs, call, self, pool, reg>>


(***************************************************************************)
(* PathFinder.find_multihop_relationships (mvp_qa_system.py).  Each of    *)
(* its two sample_subgraph calls is one step: the call runs to its end on *)
(* the rows the adapter delivers.  Both calls pass max_nodes = 500, which *)
(* the rows of this model never reach, and the default bidirectional =    *)
(* True.  Every labels query of the two calls succeeds, and no FETCH PROP *)
(* query does: the features play no part in the path search.  The         *)
(* variable self is the one sampler the path finder and the question      *)
(* answering object share (MVPQuestionAnswering.__init__).                *)
(***************************************************************************)
\* parse_hops_from_text: min(hops, 4)
MaxHopsLimit == 4

\* line 191: list(intersection)[:3]
MaxBridges == 3

\* lines 195-196: paths_a_to_bridge[:2], paths_bridge_to_b[:2]
PerSide == 2

\* line 203: bridge_paths[:5]
ResultCap == 5

\* lines 163 and 180: max_nodes=500
MultihopMaxNodes == 500

\* the rows the adapter may deliver for the queries around p0 and around t0
UniverseA ==
  { <<"p0", "p0", "follow">>, <<"p0", "p1", "follow">>, <<"p0", "t0", "serve">> }

UniverseB ==
  { <<"p1", "t0", "serve">>, <<"t0", "p1", "serve">>,
    <<"p0", "t0", "serve">>, <<"t0", "p0", "serve">> }

\* a neighbourhood of more vertices: the rows around p0 and around t0
WideA ==
  << <<"p0", "p1", "follow">>, <<"p0", "p2", "follow">>, <<"p0", "p3", "follow">> >>

WideB ==
  << <<"t0", "p0", "serve">>, <<"t0", "p1", "serve">>,
     <<"t0", "p2", "serve">>, <<"t0", "p3", "serve">> >>

\* a subgraph around p0 that holds a team other than t0
TeamA == << <<"p0", "t1", "serve">> >>

\* two hops from p0, and the one row around t0 that meets them
FarA == << <<"p0", "p1", "follow">>, <<"p1", "p2", "follow">> >>

FarB == << <<"t0", "p2", "serve">> >>

\* the responses sample_subgraph may get: n_hops = 0 sends no GO query
\* (line 104), so there are no rows
SampleRows(universe, n, n_hops, scenarios) ==
  IF n_hops = 0 THEN {<<>>} ELSE SeqsUpTo(universe, n) \cup scenarios

\* lines 96-102 and 126-131: the labels of the center and of the target of
\* every row
SampledTypes(center, edges) ==
  [v \in {center} \cup {edges[k][2] : k \in 1..Len(edges)} |-> TypeOf(v)]

\* the sampler after sample_subgraph, when the queries delivered these edges
SampledSampler(center, edges) ==
  [CreateEdgeIndex(FreshSampler, edges, TRUE).s EXCEPT
     !.node_types = SampledTypes(center, edges)]

\* sample_subgraph, its value when the queries delivered these edges
SampleResult(center, edges) ==
  LET r == CreateEdgeIndex(FreshSampler, edges, TRUE)
  IN BuildResult(SampledSampler(center, edges),
                 [IdleCall EXCEPT !.center = center,
                                  !.edge_index = r.edge_index])

\* convert_to_pyg_data (lines 321-359) on the sampler s
ConvertToPygData(s, subgraph) ==
  [x |-> [i \in 1..subgraph.num_nodes |->
            LET vid == subgraph.idx_to_vid[i]
            IN IF vid \in DOMAIN subgraph.node_features
                  /\ subgraph.node_features[vid].has_embedding
                 THEN subgraph.node_features[vid].embedding ELSE 0],
   node_type |-> [i \in 1..subgraph.num_nodes |->
                    LET vid == subgraph.idx_to_vid[i]
                    IN IF vid \in DOMAIN s.node_types /\ s.node_types[vid] = "team"
                         THEN 1 ELSE 0],
   edge_index |-> subgraph.edge_index,
   center_node_idx |-> subgraph.center_node_idx,
   vid_to_idx |-> subgraph.vid_to_idx,
   idx_to_vid |-> subgraph.idx_to_vid]

NoPyg ==
  [x |-> <<>>, node_type |-> <<>>, edge_index |-> <<>>, center_node_idx |-> 0,
   vid_to_idx |-> EmptyMap, idx_to_vid |-> <<>>]

\* s[:n]
Take(s, n) == SubSeq(s, 1, IF n < Len(s) THEN n ELSE Len(s))

\* the concatenation with the bridge vertex kept on both sides
CombineKeepBridge(pa, pb) ==
  IF Len(pa) = 0 \/ Len(pb) = 0 THEN <<>>
  ELSE [k \in 1..(Len(pa) * Len(pb)) |->
          pa[((k - 1) \div Len(pb)) + 1] \o pb[((k - 1) % Len(pb)) + 1]]

\* lines 195-199: the combined paths of one bridge node
Combine(pa, pb) ==
  IF Len(pa) = 0 \/ Len(pb) = 0 THEN <<>>
  ELSE [k \in 1..(Len(pa) * Len(pb)) |->
          pa[((k - 1) \div Len(pb)) + 1] \o Tail(pb[((k - 1) % Len(pb)) + 1])]

\* lines 192-193: the two searches of one bridge node
PathsToBridge(m, bridge_node) ==
  FindPathsBfs(m.sg_a, m.a, bridge_node, m.max_hops \div 2)

PathsFromBridge(m, bridge_node) ==
  FindPathsBfs(m.sg_b, bridge_node, m.b, m.max_hops \div 2)

\* lines 191-193: the find_paths_bfs calls of the bridge branch, two for each
\* bridge node in the order of the list, with their hop budget
RECURSIVE BridgeCalls(_, _, _)
BridgeCalls(m, bridges, i) ==
  IF i > Len(bridges) THEN <<>>
  ELSE << [inside |-> "a", max_hops |-> m.max_hops \div 2,
           paths |-> PathsToBridge(m, bridges[i])],
          [inside |-> "b", max_hops |-> m.max_hops \div 2,
           paths |-> PathsFromBridge(m, bridges[i])] >>
         \o BridgeCalls(m, bridges, i + 1)

\* lines 190-199: bridge_paths, from the results of those calls
RECURSIVE BridgePaths(_, _)
BridgePaths(calls, i) ==
  IF 2 * i > Len(calls) THEN <<>>
  ELSE Combine(Take(calls[2 * i - 1].paths, PerSide), Take(calls[2 * i].paths, PerSide))
         \o BridgePaths(calls, i + 1)

\* the ways list(intersection) may order a set
Orderings(S) ==
  {q \in [1..Cardinality(S) -> S] : \A i, j \in 1..Cardinality(S) : q[i] = q[j] => i = j}

NoAnswer == [found |-> FALSE, paths |-> <<>>, method |-> "", bridge_nodes |-> {}]

\* sampled holds the arguments of the sample_subgraph calls made so far,
\* calls the find_paths_bfs calls and their results, pyg the Data object
\* answer_question builds from the subgraph of the result
MhIdle ==
  [pc |-> "idle", a |-> "p0", b |-> "t0", max_hops |-> 0, sg_a |-> NoResult,
   sg_b |-> NoResult, samples |-> 0, sampled |-> <<>>, calls |-> <<>>,
   raw |-> <<>>, result |-> NoAnswer, pyg |-> NoPyg]

\* lines 160-164 and 177-181: the arguments of the two sample_subgraph calls
SampleArgsA(m) ==
  [center_vid |-> m.a, n_hops |-> m.max_hops, max_nodes |-> MultihopMaxNodes]

SampleArgsB(m) ==
  [center_vid |-> m.b, n_hops |-> m.max_hops \div 2, max_nodes |-> MultihopMaxNodes]

\* the test of line 167 always false
InSubgraphNever(sg, entity) == FALSE

\* line 167: entity_b in subgraph_a.get('vid_to_idx', {})
InSubgraph(sg, entity) == entity \in DOMAIN sg.vid_to_idx

\* lines 156-157: the call
MhCall ==
  /\ mh.pc = "idle"
  /\ bfs.pc = "idle"
  /\ \E max_hops \in 0..MaxHopsLimit :
       mh' = [MhIdle EXCEPT !.pc = "sample_a", !.max_hops = max_hops]
  /\ UNCHANGED <<n2t, store, bfs, threads, inputs, call, self, pool, reg>>

\* lines 160-167: the subgraph around A, then the test for B in it
MhSampleA ==
  /\ mh.pc = "sample_a"
  /\ \/ \E edges \in SampleRows(UniverseA, inputs.rows_a, SampleArgsA(mh).n_hops,
                                  {WideA, TeamA, FarA}) :
          LET sg == SampleResult(mh.a, edges)
          IN /\ mh' = [mh EXCEPT !.sg_a = sg, !.samples = 1,
                                 !.sampled = Append(@, SampleArgsA(mh)),
                                 !.pc = IF InSubgraph(sg, mh.b)
                                          THEN "direct" ELSE "sample_b"]
             /\ self' = SampledSampler(mh.a, edges)
     \* an exception, after the reset of lines 45-49
     \/ mh' = [mh EXCEPT !.pc = "raised"] /\ self' = FreshSampler
  /\ UNCHANGED <<n2t, store, bfs, threads, inputs, call, pool, reg>>

\* lines 168-174: the search inside A's subgraph
MhDirect ==
  /\ mh.pc = "direct"
  /\ LET paths == FindPathsBfs(mh.sg_a, mh.a, mh.b, mh.max_hops)
     IN mh' = [mh EXCEPT !.pc = "done",
                 !.calls = <<[inside |-> "a", max_hops |-> mh.max_hops,
                              paths |-> paths]>>,
                 !.result = [found |-> TRUE, paths |-> paths,
                             method |-> "direct_subgraph", bridge_nodes |-> {}]]
  /\ UNCHANGED <<n2t, store, bfs, threads, inputs, call, self, pool, reg>>

\* the vertex sets of lines 184-186
Intersection(m) == (DOMAIN m.sg_a.vid_to_idx) \cap (DOMAIN m.sg_b.vid_to_idx)

\* the test of line 188 always true
HasBridgeAlways(m) == TRUE

\* line 188: if intersection
HasBridge(m) == Intersection(m) # {}

\* lines 177-188: the subgraph around B, then the test of the intersection
MhSampleB ==
  /\ mh.pc = "sample_b"
  /\ \/ \E edges \in SampleRows(UniverseB, inputs.rows_b, SampleArgsB(mh).n_hops,
                                  {WideB, FarB}) :
          LET m == [mh EXCEPT !.sg_b = SampleResult(mh.b, edges), !.samples = 2,
                              !.sampled = Append(@, SampleArgsB(mh))]
          IN /\ mh' = [m EXCEPT !.pc = IF HasBridge(m) THEN "bridge" ELSE "none"]
             /\ self' = SampledSampler(mh.b, edges)
     \* an exception, after the reset of lines 45-49
     \/ mh' = [mh EXCEPT !.pc = "raised"] /\ self' = FreshSampler
  /\ UNCHANGED <<n2t, store, bfs, threads, inputs, call, pool, reg>>

\* lines 189-207: the paths through the bridge nodes
MhBridge ==
  /\ mh.pc = "bridge"
  /\ \E order \in Orderings(Intersection(mh)) :
       LET bridges == Take(order, MaxBridges)
           calls   == BridgeCalls(mh, bridges, 1)
           raw     == BridgePaths(calls, 1)
       IN mh' = [mh EXCEPT !.pc = "done",
                   !.calls = calls,
                   !.raw = raw,
                   !.result = [found |-> TRUE, paths |-> Take(raw, ResultCap),
                               method |-> "bridge_nodes",
                               bridge_nodes |-> Intersection(mh)]]
  /\ UNCHANGED <<n2t, store, bfs, threads, inputs, call, self, pool, reg>>

\* lines 209-214: no connection
MhNone ==
  /\ mh.pc = "none"
  /\ mh' = [mh EXCEPT !.pc = "done",
              !.result = [found |-> FALSE, paths |-> <<>>,
                          method |-> "no_connection", bridge_nodes |-> {}]]
  /\ UNCHANGED <<n2t, store, bfs, threads, inputs, call, self, pool, reg>>

\* MVPQuestionAnswering.answer_question, lines 287-296: a result that is
\* found has its subgraph, the one around A, converted on the shared sampler
MhConvert ==
  /\ mh.pc = "done"
  /\ mh.result.found
  /\ mh' = [mh EXCEPT !.pc = "converted",
                      !.pyg = ConvertToPygData(self, mh.sg_a)]
  /\ UNCHANGED <<n2t, store, bfs, threads, inputs, call, self, pool, reg>>

(***************************************************************************)
(* get_nebula_connection_pool (feature_store.py).  pool.global is the     *)
(* module variable _connection_pool: "None", "uninit" for a ConnectionPool *)
(* whose init did not succeed, "ready" for one whose init succeeded.      *)
(* pool.gets holds what each call gave its caller: "raise", or the state  *)
(* of the pool it returned.                                                *)
(***************************************************************************)
NoPool == [out |-> 0, global |-> "None", gets |-> <<>>]

\* lines 13-21; init_ok tells whether _connection_pool.init(...) succeeds
GetNebulaConnectionPool(p, init_ok) ==
  IF p.global = "None"
    THEN IF init_ok
           THEN [p EXCEPT !.global = "ready", !.gets = Append(@, "ready")]
           ELSE [p EXCEPT !.global = "uninit", !.gets = Append(@, "raise")]
    ELSE [p EXCEPT !.gets = Append(@, p.global)]

(***************************************************************************)
(* NebulaFeatureStore and NebulaGraphStore (remote_backend.py), the two   *)
(* halves of the store facade.  A tensor is known by its number of        *)
(* dimensions, an index by being None, empty or a tensor of row numbers;  *)
(* an edge index tensor by its being stored.  An edge type is a string    *)
(* name or a (src_type, name, dst_type) triple.  op and outcome tell the  *)
(* last operation and how it ended, remote counts the requests that the   *)
(* operations of the store sent to the remote graph, sent those of the    *)
(* last operation.                                                         *)
(***************************************************************************)
Groups == {"player", "team"}
AttrNames == {"embedding1"}
TensorDims == {1, 2}
Indexes == {"None", "empty", "rows"}
Layouts == {"coo", "csr"}

StrType(name) == [tuple |-> FALSE, src |-> "None", name |-> name, dst |-> "None"]
TripleType(src, name, dst) == [tuple |-> TRUE, src |-> src, name |-> name, dst |-> dst]

StoreEdgeTypes ==
  { StrType("follow"), TripleType("player", "follow", "player"),
    TripleType("player", "follow", "team") }

\* __init__ of the two stores (lines 27-34, 226-235), before the pool is there
NoStore ==
  [built |-> FALSE, connection_pool |-> "None",
   tensor_cache |-> EmptyMap, tensor_attrs |-> EmptyMap,
   edge_cache |-> EmptyMap, edge_attrs |-> EmptyMap,
   op |-> "none", outcome |-> "none", remote |-> 0, sent |-> 0]

MapRemove(f, k) == [x \in (DOMAIN f) \ {k} |-> f[x]]

Ended(st, op, outcome) ==
  [st EXCEPT !.op = op, !.outcome = outcome, !.sent = 0]

\* an operation that called the remote graph on its way
Remote(st) == [st EXCEPT !.remote = @ + 1, !.sent = @ + 1]

\* _put_tensor writing the tensor through to the remote graph as well
PutTensorWriteThrough(st, group, name, ndim, index) ==
  Remote(Ended([st EXCEPT !.tensor_cache =
                          MapPut(@, <<group, name>>, [ndim |-> ndim])],
               "put_tensor", "True"))

\* _put_tensor (lines 109-144)
PutTensor(st, group, name, ndim, index) ==
  LET key == <<group, name>>
      registered ==
        [st EXCEPT !.tensor_attrs =
           MapPut(@, group,
                  (IF group \in DOMAIN @ THEN @[group] ELSE {}) \cup {name})]
  IN IF index = "None"
       THEN Ended([registered EXCEPT !.tensor_cache =
                     MapPut(@, key, [ndim |-> ndim])],
                  "put_tensor", "True")
     ELSE IF key \in DOMAIN st.tensor_cache
       \* line 142: the rows of the cached tensor are updated
       THEN Ended(registered, "put_tensor", "True")
     ELSE IF index = "empty" \/ ndim = 1
       \* line 139: max(index) of an empty index, tensor.size(1) of a
       \* one-dimensional tensor
       THEN Ended(registered, "put_tensor", "raise")
     ELSE Ended([registered EXCEPT !.tensor_cache =
                   MapPut(@, key, [ndim |-> 2])],
                "put_tensor", "True")

\* _remove_tensor (lines 146-169)
RemoveTensor(st, group, name) ==
  LET key == <<group, name>>
  IN IF key \in DOMAIN st.tensor_cache
       THEN Ended([st EXCEPT
                     !.tensor_cache = MapRemove(@, key),
                     !.tensor_attrs =
                       IF group \in DOMAIN @ /\ name \in @[group]
                         THEN [@ EXCEPT ![group] = @ \ {name}]
                         ELSE @],
                  "remove_tensor", "True")
       ELSE Ended(st, "remove_tensor", "False")

\* get_all_tensor_attrs (lines 171-180): {group: list(attrs)}
GetAllTensorAttrs(st) == st.tensor_attrs

\* _get_tensor (lines 36-86): a cached tensor, the empty tensor, or one
\* get_entity_embedding call for each node of the index
GetTensor(st, group, name, index) ==
  IF <<group, name>> \in DOMAIN st.tensor_cache \/ index \in {"None", "empty"}
    THEN Ended(st, "get_tensor", "tensor")
    \* lines 69-73: id_mapper, then get_entity_embedding(node_id, group, name)
    ELSE Remote(Ended(st, "get_tensor", "tensor"))

\* lines 397-401 and 427-430: the name of an edge type
EdgeName(edge_type) == edge_type.name

\* _put_edge_index (lines 371-406)
PutEdgeIndex(st, edge_type, layout) ==
  IF layout # "coo" THEN Ended(st, "put_edge_index", "raise")
  ELSE Ended([st EXCEPT
                !.edge_cache = MapPut(@, <<edge_type, layout>>, TRUE),
                !.edge_attrs =
                  MapPut(@, EdgeName(edge_type),
                         [src_type |-> edge_type.src, dst_type |-> edge_type.dst])],
             "put_edge_index", "True")

\* _remove_edge_index (lines 408-437)
RemoveEdgeIndex(st, edge_type, layout) ==
  IF <<edge_type, layout>> \in DOMAIN st.edge_cache
    THEN Ended([st EXCEPT
                  !.edge_cache = MapRemove(@, <<edge_type, layout>>),
                  !.edge_attrs = MapRemove(@, EdgeName(edge_type))],
               "remove_edge_index", "True")
    ELSE Ended(st, "remove_edge_index", "False")

\* get_all_edge_attrs (lines 439-458)
GetAllEdgeAttrs(st) ==
  { IF st.edge_attrs[n].src_type # "None" /\ st.edge_attrs[n].dst_type # "None"
      THEN TripleType(st.edge_attrs[n].src_type, n, st.edge_attrs[n].dst_type)
      ELSE StrType(n) : n \in DOMAIN st.edge_attrs }

\* _get_edge_index (lines 273-369): a cached edge index, NotImplementedError,
\* one sample_subgraph call for each source of the index, or no edges
GetEdgeIndex(st, edge_type, layout, index) ==
  IF <<edge_type, layout>> \in DOMAIN st.edge_cache
    THEN Ended(st, "get_edge_index", "tensor")
  ELSE IF layout # "coo" THEN Ended(st, "get_edge_index", "raise")
  ELSE IF index = "rows"
    \* lines 318-326: SubgraphSampler(...).sample_subgraph(center_vid, n_hops=1)
    THEN Remote(Ended(st, "get_edge_index", "tensor"))
  ELSE Ended(st, "get_edge_index", "tensor")

\* the construction of the stores: each __init__ calls
\* get_nebula_connection_pool (lines 28, 227) and keeps what it returns
StoreInit ==
  /\ ~store.built
  /\ Len(pool.gets) < MaxPoolCalls
  /\ \E init_ok \in BOOLEAN :
       LET p == GetNebulaConnectionPool(pool, init_ok)
           got == p.gets[Len(p.gets)]
       IN /\ pool' = p
          /\ store' = IF got = "raise" THEN store
                      ELSE [NoStore EXCEPT !.built = TRUE, !.connection_pool = got]
  /\ UNCHANGED <<n2t, bfs, mh, threads, inputs, call, self, reg>>

StorePutTensor ==
  /\ store.built
  /\ \E group \in Groups, name \in AttrNames, ndim \in TensorDims, index \in Indexes :
       store' = PutTensor(store, group, name, ndim, index)
  /\ UNCHANGED <<n2t, bfs, mh, threads, inputs, call, self, pool, reg>>

StoreRemoveTensor ==
  /\ store.built
  /\ \E group \in Groups, name \in AttrNames :
       store' = RemoveTensor(store, group, name)
  /\ UNCHANGED <<n2t, bfs, mh, threads, inputs, call, self, pool, reg>>

StoreGetTensor ==
  /\ store.built
  /\ store.remote < MaxRemote
  /\ \E group \in Groups, name \in AttrNames, index \in Indexes :
       store' = GetTensor(store, group, name, index)
  /\ UNCHANGED <<n2t, bfs, mh, threads, inputs, call, self, pool, reg>>

StorePutEdgeIndex ==
  /\ store.built
  /\ \E edge_type \in StoreEdgeTypes, layout \in Layouts :
       store' = PutEdgeIndex(store, edge_type, layout)
  /\ UNCHANGED <<n2t, bfs, mh, threads, inputs, call, self, pool, reg>>

StoreRemoveEdgeIndex ==
  /\ store.built
  /\ \E edge_type \in StoreEdgeTypes, layout \in Layouts :
       store' = RemoveEdgeIndex(store, edge_type, layout)
  /\ UNCHANGED <<n2t, bfs, mh, threads, inputs, call, self, pool, reg>>

StoreGetEdgeIndex ==
  /\ store.built
  /\ store.remote < MaxRemote
  /\ \E edge_type \in StoreEdgeTypes, layout \in Layouts, index \in Indexes :
       store' = GetEdgeIndex(store, edge_type, layout, index)
  /\ UNCHANGED <<n2t, bfs, mh, threads, inputs, call, self, pool, reg>>

(***************************************************************************)
(* NebulaToTorch (pyg_integration.py) with its SimpleNeighborLoader       *)
(* (neighbor_loader.py) and its feature store, into which nothing is put. *)
(* id_to_idx and idx_to_id are the object's own ID maps; last is what the *)
(* last call returned, with in fetched the node ids its feature rows were *)
(* fetched for and in ok whether the FETCH queries of the call succeeded. *)
(***************************************************************************)
NoData ==
  [kind |-> "none", num_nodes |-> 0, features |-> <<>>, node_ids |-> <<>>,
   fetched |-> <<>>, ok |-> TRUE]

\* NebulaToTorch.__init__ (lines 24-26)
NoLoader == [id_to_idx |-> EmptyMap, idx_to_id |-> <<>>, calls |-> 0, last |-> NoData]

\* get_node_id_by_idx (lines 46-57); "unknown" stands for f"unknown{idx}"
GetNodeIdByIdx(n, idx) ==
  IF 0 <= idx /\ idx < Len(n.idx_to_id) THEN n.idx_to_id[idx + 1] ELSE "unknown"

\* _get_or_add_id (lines 59-72), the maps after the call
GetOrAddId(n, node_id) ==
  IF node_id \notin DOMAIN n.id_to_idx
    THEN [n EXCEPT !.id_to_idx = MapPut(@, node_id, Len(n.idx_to_id)),
                   !.idx_to_id = Append(@, node_id)]
    ELSE n

\* the loops of lines 86-88, 116-118 and 125-129 over a list of node ids
RECURSIVE AddIds(_, _, _)
AddIds(n, node_ids, i) ==
  IF i > Len(node_ids) THEN n
  ELSE AddIds(GetOrAddId(n, node_ids[i]), node_ids, i + 1)

\* get_entity_embedding (feature_store.py, lines 36-62): None, here 0 with
\* found FALSE, when the query fails, has no row (no such vertex with this
\* tag), has an empty value, or as_double() raises on a value that is not
\* a double
GetEntityEmbedding(entity_id, entity_tag, ok) ==
  IF /\ ok
     /\ entity_id # "unknown"
     /\ TypeOf(entity_id) = entity_tag
     /\ RemoteHasEmbedding(entity_id)
     /\ RemoteEmbeddingKind(entity_id) = "double"
    THEN [found |-> TRUE, value |-> RemoteEmbedding(entity_id)]
    ELSE [found |-> FALSE, value |-> 0]

\* NebulaFeatureStore._get_tensor on a cache miss (remote_backend.py, lines
\* 61-86): the ids the id_mapper gives for the indices, and their features
TensorIds(n, index) == [i \in 1..Len(index) |-> GetNodeIdByIdx(n, index[i])]

TensorRows(n, group, index, ok) ==
  [i \in 1..Len(index) |->
     GetEntityEmbedding(TensorIds(n, index)[i], group, ok).value]

\* torch.arange(num_nodes)
Arange(num_nodes) == [i \in 1..num_nodes |-> i - 1]

\* SimpleNeighborLoader.load_data (lines 53-99) on the subgraph that
\* sample_subgraph returned
LoadData(n, subgraph, ok) ==
  [kind |-> "subgraph",
   num_nodes |-> subgraph.num_nodes,
   features |-> TensorRows(n, "player", Arange(subgraph.num_nodes), ok),
   node_ids |-> subgraph.idx_to_vid,
   fetched |-> TensorIds(n, Arange(subgraph.num_nodes)),
   ok |-> ok]

\* the rows the adapter may deliver to the loader's sampler
LoaderUniverse ==
  { <<"p0", "p1", "follow">>, <<"p1", "p0", "follow">>,
    <<"p0", "t0", "serve">>, <<"p1", "t0", "serve">> }

\* NebulaToTorch.get_node_features (lines 74-100)
LoaderGetNodeFeatures ==
  /\ n2t.calls < MaxLoaderCalls
  /\ \E node_ids \in SeqsUpTo({"p0", "p1", "t0"}, 2), ok \in BOOLEAN :
       LET n == AddIds(n2t, node_ids, 1)
           index == [i \in 1..Len(node_ids) |-> n.id_to_idx[node_ids[i]]]
       IN n2t' = [n EXCEPT !.calls = @ + 1,
                    !.last = [kind |-> "features",
                              num_nodes |-> Len(node_ids),
                              features |-> TensorRows(n, "player", index, ok),
                              node_ids |-> node_ids,
                              fetched |-> TensorIds(n, index),
                              ok |-> ok]]
  /\ UNCHANGED <<store, bfs, mh, threads, inputs, call, self, pool, reg>>

\* NebulaToTorch.get_subgraph (lines 104-139) for one center node
LoaderGetSubgraph ==
  /\ n2t.calls < MaxLoaderCalls
  /\ \E center \in {"p0", "p1"}, n_hops \in {0, 1} :
       LET n == AddIds(n2t, <<center>>, 1)
       IN \/ \E edges \in SampleRows(LoaderUniverse, 2, n_hops, {}), ok \in BOOLEAN :
               LET data == LoadData(n, SampleResult(center, edges), ok)
               IN n2t' = [AddIds(n, data.node_ids, 1) EXCEPT
                            !.calls = @ + 1, !.last = data]
          \* sample_subgraph raises: the center stays registered
          \/ n2t' = [n EXCEPT !.calls = @ + 1, !.last = [NoData EXCEPT !.kind = "raise"]]
  /\ UNCHANGED <<store, bfs, mh, threads, inputs, call, self, pool, reg>>

(***************************************************************************)
(* Specifications.                                                         *)
(***************************************************************************)
InitCommon ==
  /\ call = [t \in Threads |-> IdleCall]
  /\ self = FreshSampler
  /\ pool = NoPool
  /\ reg = [s |-> FreshSampler, log |-> <<>>]
  /\ bfs = BfsIdle
  /\ mh = MhIdle
  /\ store = NoStore
  /\ n2t = NoLoader

Step(t) ==
  \/ Begin(t) \/ GetSession(t) \/ Use(t) \/ CenterType(t) \/ HopQuery(t)
  \/ GoRow(t) \/ DstType(t) \/ BulkQuery(t) \/ BulkRow(t) \/ EdgeIndexStep(t)
  \/ FeatureQuery(t) \/ Build(t) \/ Finally(t) \/ Done(t)
  \/ EmbBegin(t) \/ EmbGetSession(t) \/ EmbUse(t) \/ EmbQuery(t) \/ EmbFinally(t)

\* the arguments of find_paths_bfs: any edges between A, B and C
BfsInputs ==
  [vids |-> BfsVids, pairs |-> (0..2) \X (0..2), starts |-> {"A", "X"},
   ends |-> {"A", "B", "X"}, hops |-> 0..MaxBfsHops]

\* the arguments the callers pass and the rows one call is delivered at most
AllInputs ==
  [centers |-> Vids, hops |-> SampleHops, budgets |-> 1..MaxBudget,
   bidir |-> BOOLEAN, rows |-> MaxRows, universe |-> RowUniverse,
   once |-> FALSE, edges |-> MaxEdges, track |-> FALSE, bfs |-> BfsInputs,
   rows_a |-> MaxRowsA, rows_b |-> MaxRowsB]

\* one caller at a time: the calls on the sampler do not overlap
Init == InitCommon /\ threads = {1} /\ inputs = AllInputs

Next == \E t \in threads : Step(t)

Spec == Init /\ [][Next]_vars

\* two callers share the sampler, as the requests of the web application do
ConcInputs ==
  [centers |-> {"p0", "p1"}, hops |-> {1, 3}, budgets |-> {MaxBudget},
   bidir |-> {TRUE}, rows |-> 1,
   universe |-> {<<"p0", "t0", "serve">>, <<"p1", "p0", "follow">>},
   once |-> TRUE, edges |-> MaxEdges, track |-> FALSE, bfs |-> BfsInputs,
   rows_a |-> MaxRowsA, rows_b |-> MaxRowsB]

InitConc == InitCommon /\ threads = Threads /\ inputs = ConcInputs

SpecConc == InitConc /\ [][Next]_vars

\* one caller, the failed queries of each call recorded
FailInputs ==
  [centers |-> {"p0"}, hops |-> SampleHops, budgets |-> {MaxBudget},
   bidir |-> BOOLEAN, rows |-> 2, universe |-> RowUniverse,
   once |-> FALSE, edges |-> MaxEdges, track |-> TRUE, bfs |-> BfsInputs,
   rows_a |-> MaxRowsA, rows_b |-> MaxRowsB]

InitFail == InitCommon /\ threads = {1} /\ inputs = FailInputs

SpecFail == InitFail /\ [][Next]_vars

\* the registry of one sampling session
InitReg == InitCommon /\ threads = {} /\ inputs = AllInputs

SpecReg == InitReg /\ [][RegCall]_vars

\* the path finder: one call, of find_paths_bfs on its own or of
\* find_multihop_relationships
NextBfs == BfsCall \/ BfsStep \/ BfsReturn

NextPaths ==
  \/ NextBfs
  \/ MhCall \/ MhSampleA \/ MhDirect \/ MhSampleB \/ MhBridge \/ MhNone

SpecPaths == InitReg /\ [][NextPaths]_vars

\* find_paths_bfs runs on the calling thread until it returns
InitFair ==
  InitCommon /\ threads = {} /\ inputs = [AllInputs EXCEPT !.edges = MaxFairEdges]

SpecBfsFair == InitFair /\ [][NextBfs]_vars /\ WF_vars(BfsStep) /\ WF_vars(BfsReturn)

\* find_paths_bfs from A to B on the subgraphs of A, B, C, D with at most 5
\* edges.  The search never expands the end vertex (line 140), so the edges
\* that leave B are left out.
DeepInputs ==
  [AllInputs EXCEPT
     !.edges = 5,
     !.bfs = [vids |-> DeepVids, pairs |-> {0, 2, 3} \X (0..3),
              starts |-> {"A"}, ends |-> {"B"}, hops |-> {2, 3, 4}]]

InitDeep == InitCommon /\ threads = {} /\ inputs = DeepInputs

SpecDeep == InitDeep /\ [][NextBfs]_vars

\* one question answered: find_multihop_relationships, then the conversion
\* of the subgraph of a found result
AnswerInputs == [AllInputs EXCEPT !.rows_a = 1, !.rows_b = 2]

InitAnswer == InitCommon /\ threads = {} /\ inputs = AnswerInputs

NextAnswer ==
  \/ MhCall \/ MhSampleA \/ MhDirect \/ MhSampleB \/ MhBridge \/ MhNone
  \/ MhConvert

SpecAnswer == InitAnswer /\ [][NextAnswer]_vars

\* one NebulaToTorch object and the calls made on it
NextLoader == LoaderGetNodeFeatures \/ LoaderGetSubgraph

SpecLoader == InitReg /\ [][NextLoader]_vars

\* the store facade: its construction, then any sequence of its operations
NextStore ==
  \/ StoreInit
  \/ StorePutTensor \/ StoreRemoveTensor \/ StoreGetTensor
  \/ StorePutEdgeIndex \/ StoreRemoveEdgeIndex \/ StoreGetEdgeIndex

SpecStore == InitReg /\ [][NextStore]_vars

(***************************************************************************)
(* Properties of the sampler.                                              *)
(***************************************************************************)
Returned(t) == t \in threads /\ call[t].pc = "returned"

\* the vertices of the edges a call discovered
EdgeVids(edges) == {edges[k][1] : k \in 1..Len(edges)} \cup
                   {edges[k][2] : k \in 1..Len(edges)}

\* every (src, dst) pair of the list is a pair of indices below n
PairsBelow(pairs, n) ==
  \A k \in 1..Len(pairs) : pairs[k][1] \in 0..(n - 1) /\ pairs[k][2] \in 0..(n - 1)

\* vid_to_idx and idx_to_vid are inverse to each other, the indices 0..n-1
Bijection(vid_to_idx, idx_to_vid) ==
  /\ DOMAIN vid_to_idx = SeqRange(idx_to_vid)
  /\ Len(idx_to_vid) = Cardinality(DOMAIN vid_to_idx)
  /\ \A v \in DOMAIN vid_to_idx :
       /\ vid_to_idx[v] \in 0..(Len(idx_to_vid) - 1)
       /\ idx_to_vid[vid_to_idx[v] + 1] = v

\* C1: every Subgraph sample_subgraph returns has len(idx_to_vid) <= max_nodes,
\* under the per-hop and under the bulk strategy, for every max_nodes >= 1.
C1_NodeBudget ==
  \A t \in Threads :
    Returned(t) => Len(call[t].result.idx_to_vid) <= call[t].max_nodes

\* C5: every sample_subgraph and get_entity_embedding call makes one
\* get_session call, releases the session it got exactly once before it
\* returns or raises, and a call that returns a Subgraph has checked out
\* exactly one session; when no call is running no session is checked out.
C5_SessionReleased ==
  /\ \A t \in Threads :
       /\ call[t].released <= call[t].acquired /\ call[t].acquired <= 1
       /\ call[t].pc \in {"returned", "raised", "emb_returned"} =>
            /\ call[t].attempts = 1
            /\ call[t].released = call[t].acquired
            /\ ~call[t].session
       /\ call[t].pc = "returned" => call[t].acquired = 1 /\ call[t].released = 1
  /\ pool.out = Cardinality({t \in Threads : call[t].session})
  /\ (\A t \in Threads :
        call[t].pc \in {"idle", "returned", "raised", "emb_returned"})
       => pool.out = 0

\* a call that raised while it read the rows of a response, its session released
C5_Witness ==
  \E t \in Threads :
    /\ call[t].pc = "raised" /\ call[t].edges # <<>>
    /\ call[t].acquired = 1 /\ call[t].released = 1

\* C6: when two sample_subgraph calls on the shared sampler overlap, each
\* returns a Subgraph whose vid_to_idx / idx_to_vid are a contiguous bijection
\* over that call's own vertices only, whose edge_index entries are indices of
\* that Subgraph and whose node types are those of that call's nodes.
C6_CallLocal ==
  \A t \in Threads :
    Returned(t) =>
      LET r == call[t].result
      IN /\ Bijection(r.vid_to_idx, r.idx_to_vid)
         /\ DOMAIN r.vid_to_idx \subseteq EdgeVids(call[t].edges)
         /\ PairsBelow(r.edge_index, Len(r.idx_to_vid))
         /\ \A ty \in DOMAIN r.edge_indices_by_type :
              PairsBelow(r.edge_indices_by_type[ty], Len(r.idx_to_vid))
         /\ DOMAIN r.node_types \subseteq call[t].nodes

\* C7: once sample_subgraph has returned and no call is running, the sampler
\* holds no vid/index maps, no edge lists and no node types.
C7_NothingRetained ==
  (\A t \in Threads : call[t].pc \in {"idle", "returned", "raised", "emb_returned"})
    => self = FreshSampler

\* C8: in one sampling session a vid seen before gets the index of its first
\* call, a new vid gets the next index len(idx_to_vid), so the indices are
\* 0..n-1 in first-seen order, and idx_to_vid[vid_to_idx[v]] = v.
C8_RegistryBijection ==
  LET log == reg.log
      s   == reg.s
      Seen(i) == {log[k][1] : k \in 1..(i - 1)}
  IN /\ \A i \in 1..Len(log) :
          IF log[i][1] \in Seen(i)
            THEN \A k \in 1..(i - 1) : log[k][1] = log[i][1] => log[k][2] = log[i][2]
            ELSE log[i][2] = Cardinality(Seen(i))
     /\ Bijection(s.vid_to_idx, s.idx_to_vid)
     /\ DOMAIN s.vid_to_idx = {log[k][1] : k \in 1..Len(log)}
     /\ \A i \in 1..Len(log) : s.vid_to_idx[log[i][1]] = log[i][2]

\* a session in which a vid was passed again after another vid was registered
C8_Witness ==
  \E i, j \in 1..Len(reg.log) :
    /\ i + 1 < j /\ reg.log[i][1] = reg.log[j][1]
    /\ reg.log[i + 1][1] # reg.log[i][1]

\* C9: in every Subgraph sample_subgraph returns, every (src, dst) entry of
\* edge_index and of every per-type edge list is a pair of indices of
\* idx_to_vid.
C9_EdgeIndicesValid ==
  \A t \in Threads :
    Returned(t) =>
      LET r == call[t].result
      IN /\ PairsBelow(r.edge_index, Len(r.idx_to_vid))
         /\ \A ty \in DOMAIN r.edge_indices_by_type :
              PairsBelow(r.edge_indices_by_type[ty], Len(r.idx_to_vid))

\* a returned Subgraph with edges of two types
C9_Witness ==
  \E t \in Threads :
    /\ Returned(t)
    /\ Cardinality(DOMAIN call[t].result.edge_indices_by_type) = 2
    /\ Len(call[t].result.edge_index) >= 3

\* C10: with bidirectional = true, for every discovered edge (u, v, t) both
\* (idx(u), idx(v)) and (idx(v), idx(u)) are in edge_index and in the list of
\* type t.
C10_Bidirectional ==
  \A t \in Threads :
    (Returned(t) /\ call[t].bidir) =>
      LET r == call[t].result
      IN \A k \in 1..Len(call[t].edges) :
           LET e == call[t].edges[k]
               u == r.vid_to_idx[e[1]]
               v == r.vid_to_idx[e[2]]
           IN /\ {<<u, v>>, <<v, u>>} \subseteq SeqRange(r.edge_index)
              /\ e[3] \in DOMAIN r.edge_indices_by_type
              /\ {<<u, v>>, <<v, u>>} \subseteq SeqRange(r.edge_indices_by_type[e[3]])

\* a bidirectional Subgraph of one discovered edge
C10_Witness ==
  \E t \in Threads :
    /\ Returned(t) /\ call[t].bidir
    /\ Len(call[t].edges) = 1
    /\ Len(call[t].result.edge_index) = 2

\* C15: a hop, bulk, vertex-type or property query that reports failure, or
\* returns no rows, does not make sample_subgraph fail: a call raises only
\* when the adapter threw an exception into it, and a call that returns
\* returns a Subgraph built from all the rows the other queries delivered.
C15_FailureNotFatal ==
  \A t \in Threads :
    /\ call[t].outcome = "raise" => call[t].exc
    /\ Returned(t) =>
         LET r == call[t].result
         IN /\ r.valid
            /\ DOMAIN r.vid_to_idx = EdgeVids(call[t].edges)
            /\ Len(r.edge_index) =
                 (IF call[t].bidir THEN 2 ELSE 1) * Len(call[t].edges)
            /\ DOMAIN r.node_features \subseteq call[t].nodes

\* a returned Subgraph with the edges of hop 2 although the query of hop 1
\* and a property query failed
C15_Witness ==
  \E t \in Threads :
    /\ Returned(t) /\ call[t].n_hops = 2
    /\ {"hop1", "props"} \subseteq call[t].failed
    /\ call[t].edges # <<>>

\* C18: for n_hops <= 2 the GO queries are issued for the hops 1..n_hops in
\* this order, and none is issued, and no row is consumed, in a state in
\* which len(nodes) >= max_nodes already holds.
C18_StopsAtBudget ==
  \A t \in Threads :
    call[t].pc \in {"hop", "rows"} =>
      /\ call[t].n_hops <= 2 /\ call[t].hop \in 1..call[t].n_hops
      /\ ~BudgetReached(call[t].nodes, call[t].max_nodes)

(***************************************************************************)
(* Properties of the path finder.                                          *)
(***************************************************************************)
\* every path of the list has at most n vertices
AllWithin(paths, n) == \A k \in 1..Len(paths) : Len(paths[k]) <= n

\* C2: every path find_multihop_relationships returns, found directly or
\* assembled through a bridge node, has at most max_hops + 1 vertices, and so
\* has every path find_paths_bfs returns for its own max_hops.
C2_PathLength ==
  /\ bfs.pc \in {"search", "done"} => AllWithin(bfs.st.paths, bfs.max_hops + 1)
  /\ mh.pc = "done" =>
       /\ AllWithin(mh.result.paths, mh.max_hops + 1)
       /\ \A c \in 1..Len(mh.calls) :
            AllWithin(mh.calls[c].paths, mh.calls[c].max_hops + 1)

\* a bridge answer with a path of exactly max_hops + 1 vertices
C2_Witness ==
  /\ mh.pc = "done" /\ mh.result.method = "bridge_nodes"
  /\ \E k \in 1..Len(mh.result.paths) :
       Len(mh.result.paths[k]) = mh.max_hops + 1 /\ Len(mh.result.paths[k]) >= 3

\* C3: find_paths_bfs returns at most 5 paths for every subgraph, and
\* find_multihop_relationships returns at most 5 paths in its direct, bridge
\* and no-connection branches.
C3_PathCap ==
  /\ Len(bfs.st.paths) <= 5
  /\ mh.pc = "done" =>
       /\ Len(mh.result.paths) <= 5
       /\ \A c \in 1..Len(mh.calls) : Len(mh.calls[c].paths) <= 5

\* a search that returned 5 paths with entries left in its frontier
C3_SearchCut ==
  bfs.pc = "done" /\ Len(bfs.st.paths) = 5 /\ bfs.st.queue # <<>>

\* a bridge answer cut to 5 of the paths assembled
C3_BridgeCut ==
  mh.pc = "done" /\ mh.result.method = "bridge_nodes" /\ Len(mh.raw) > 5

\* C4: find_paths_bfs terminates on every finite subgraph and every
\* max_hops >= 0, cycles, self-loops and revisited vertices included: the
\* frontier becomes empty or 5 paths are collected.
C4_Terminates ==
  (bfs.pc = "search") ~> (bfs.st.queue = <<>> \/ Len(bfs.st.paths) >= 5)

\* a finished search that returned a path visiting a vertex twice
C4_Witness ==
  /\ bfs.pc = "done" /\ bfs.st.queue = <<>>
  /\ \E k \in 1..Len(bfs.st.paths) :
       Len(bfs.st.paths[k]) > Cardinality(SeqRange(bfs.st.paths[k]))

\* the value of the method enumeration {direct, bridge, none} that a method
\* string of the result dictionary stands for
MethodEnum(method) ==
  IF method = "direct_subgraph" THEN "direct"
  ELSE IF method = "bridge_nodes" THEN "bridge"
  ELSE IF method = "no_connection" THEN "none"
  ELSE "unknown"

\* the vertices of the paths of a list
PathVids(paths) == UNION {SeqRange(paths[k]) : k \in 1..Len(paths)}

\* C11: the first sample_subgraph call is the one around A with n_hops =
\* max_hops; if B is in the vertex set of A's subgraph the answer has found =
\* true and method direct, its one search ran inside A's subgraph and no
\* second sample_subgraph call was made; a second call is made only after the
\* first, only if B is absent from A's subgraph, around B with n_hops =
\* max_hops div 2.
C11_DirectFirst ==
  /\ Len(mh.sampled) <= 2
  /\ Len(mh.sampled) >= 1 =>
       /\ mh.sampled[1] = [center_vid |-> mh.a, n_hops |-> mh.max_hops,
                           max_nodes |-> 500]
       /\ mh.sg_a.valid
  /\ Len(mh.sampled) = 2 =>
       /\ mh.b \notin DOMAIN mh.sg_a.vid_to_idx
       /\ mh.sampled[2] = [center_vid |-> mh.b, n_hops |-> mh.max_hops \div 2,
                           max_nodes |-> 500]
  /\ (mh.pc = "done" /\ mh.b \in DOMAIN mh.sg_a.vid_to_idx) =>
       /\ mh.result.found /\ MethodEnum(mh.result.method) = "direct"
       /\ Len(mh.sampled) = 1 /\ mh.sg_b = NoResult
       /\ Len(mh.calls) = 1 /\ mh.calls[1].inside = "a"
       /\ mh.calls[1].max_hops = mh.max_hops
       /\ mh.result.paths = mh.calls[1].paths
       /\ PathVids(mh.result.paths) \subseteq DOMAIN mh.sg_a.vid_to_idx

\* a direct answer with two paths or more, found after one sample_subgraph call
C11_Witness ==
  /\ mh.pc = "done" /\ mh.result.method = "direct_subgraph"
  /\ Len(mh.sampled) = 1 /\ Len(mh.result.paths) >= 2

\* C12: if B is absent from A's subgraph and the two vertex sets intersect,
\* the answer has method bridge, its searches went through at most 3 of the
\* intersection vertices, and every returned path is pa \o Tail(pb) for a path
\* pa from A to a bridge vertex found inside A's subgraph and a path pb from
\* that vertex to B found inside B's subgraph, both within max_hops div 2
\* hops, so it starts at A and ends at B.
C12_BridgePaths ==
  (mh.pc = "done" /\ mh.b \notin DOMAIN mh.sg_a.vid_to_idx /\ Intersection(mh) # {}) =>
    /\ mh.result.found /\ MethodEnum(mh.result.method) = "bridge"
    /\ Len(mh.calls) <= 2 * 3 /\ Len(mh.calls) % 2 = 0
    /\ \A c \in 1..Len(mh.calls) :
         /\ mh.calls[c].inside = (IF c % 2 = 1 THEN "a" ELSE "b")
         /\ mh.calls[c].max_hops = mh.max_hops \div 2
         /\ AllWithin(mh.calls[c].paths, (mh.max_hops \div 2) + 1)
         /\ PathVids(mh.calls[c].paths) \subseteq
              DOMAIN (IF c % 2 = 1 THEN mh.sg_a ELSE mh.sg_b).vid_to_idx
    /\ \A k \in 1..Len(mh.result.paths) :
         LET p == mh.result.paths[k]
         IN /\ p[1] = mh.a /\ p[Len(p)] = mh.b
            /\ \E i \in 1..(Len(mh.calls) \div 2) :
                 \E x \in 1..Len(mh.calls[2 * i - 1].paths),
                    y \in 1..Len(mh.calls[2 * i].paths) :
                   LET pa == mh.calls[2 * i - 1].paths[x]
                       pb == mh.calls[2 * i].paths[y]
                   IN /\ p = pa \o Tail(pb)
                      /\ pa[1] = mh.a /\ pa[Len(pa)] = pb[1]
                      /\ pb[1] \in Intersection(mh) /\ pb[Len(pb)] = mh.b

\* a bridge answer through 3 of 4 common vertices, with paths
C12_Witness ==
  /\ mh.pc = "done" /\ mh.result.method = "bridge_nodes"
  /\ Cardinality(Intersection(mh)) = 4 /\ Len(mh.calls) = 6
  /\ Len(mh.result.paths) >= 3

\* C13: if B is absent from A's subgraph and the two vertex sets are
\* disjoint, the answer has found = false, method none and no paths.
C13_NoConnection ==
  (mh.pc = "done" /\ mh.b \notin DOMAIN mh.sg_a.vid_to_idx /\ Intersection(mh) = {}) =>
    /\ ~mh.result.found /\ MethodEnum(mh.result.method) = "none"
    /\ mh.result.paths = <<>>

\* a no-connection answer for two disjoint subgraphs that both have vertices
C13_Witness ==
  /\ mh.pc = "done" /\ mh.result.method = "no_connection"
  /\ DOMAIN mh.sg_a.vid_to_idx # {} /\ DOMAIN mh.sg_b.vid_to_idx # {}

\* C14: if the edge_index holds the edge A -> B and max_hops >= 1,
\* find_paths_bfs(subgraph, A, B, max_hops) returns the path [A, B] among
\* its paths, whatever other neighbours A has.
C14_DirectEdge ==
  (/\ bfs.pc = "done" /\ bfs.start = "A" /\ bfs.end = "B" /\ bfs.max_hops >= 1
   /\ <<0, 1>> \in SeqRange(bfs.sg.edge_index))
    => <<"A", "B">> \in SeqRange(bfs.st.paths)

\* a search with max_hops = 1 from a vertex A of three more neighbours, listed
\* before B, that returned [A, B]
C14_Witness ==
  /\ bfs.pc = "done" /\ bfs.start = "A" /\ bfs.end = "B" /\ bfs.max_hops = 1
  /\ Len(Neighbours(bfs.sg.edge_index, 0)) = 4
  /\ Neighbours(bfs.sg.edge_index, 0)[4] = 1
  /\ <<"A", "B">> \in SeqRange(bfs.st.paths)

\* C17: find_paths_bfs returns the empty list, and does not raise, when the
\* start or the end vertex is not a key of subgraph.vid_to_idx, the empty
\* subgraph included.
C17_AbsentEmpty ==
  /\ bfs.pc # "raised"
  /\ (bfs.pc # "idle" /\ ({bfs.start, bfs.end} \ DOMAIN bfs.sg.vid_to_idx) # {}) =>
       bfs.pc = "done" /\ bfs.st.paths = <<>>

\* a call that returned for an end vertex absent from a subgraph with edges
C17_Witness ==
  /\ bfs.pc = "done" /\ bfs.start = "A" /\ bfs.end = "X"
  /\ bfs.sg.edge_index # <<>> /\ bfs.st.paths = <<>>

\* a call that returned for the empty subgraph
C17_EmptySubgraph ==
  bfs.pc = "done" /\ bfs.sg = NoSubgraph /\ bfs.st.paths = <<>>

(***************************************************************************)
(* Properties of the connection pool and of the store facade.             *)
(***************************************************************************)
\* C16: a get_nebula_connection_pool call whose initialisation fails raises,
\* and so does every later call until an initialisation succeeds: no caller
\* is returned a pool whose initialisation failed, and no store is built on
\* one.
C16_InitFailureFatal ==
  /\ \A i \in 1..Len(pool.gets) : pool.gets[i] \in {"raise", "ready"}
  /\ store.built => store.connection_pool = "ready"

\* the (group, field) pairs that get_all_tensor_attrs lists
ListedTensors(st) ==
  {k \in Groups \X AttrNames :
     k[1] \in DOMAIN GetAllTensorAttrs(st) /\ k[2] \in GetAllTensorAttrs(st)[k[1]]}

\* the edge types an edge index is cached for
CachedEdgeTypes(st) == {k[1] : k \in DOMAIN st.edge_cache}

\* C19: after any sequence of put and remove operations, a (group, field)
\* pair is listed by get_all_tensor_attrs iff a tensor is cached for it, and
\* an edge type, string or triple, is listed by get_all_edge_attrs iff an
\* edge index is cached for it.
C19_ListAttrsExact ==
  /\ ListedTensors(store) = DOMAIN store.tensor_cache
  /\ GetAllEdgeAttrs(store) = CachedEdgeTypes(store)

\* C20: a _put_tensor, _remove_tensor, _put_edge_index or _remove_edge_index
\* step sends nothing to the remote graph and checks out no session; a
\* tensor write leaves the edge cache and registry alone, an edge write the
\* tensor cache and registry, and all leave the sampler and the pool alone.
C20_WritesLocal ==
  [][(store'.op \in {"put_tensor", "remove_tensor",
                     "put_edge_index", "remove_edge_index"}) =>
       /\ store'.remote = store.remote
       /\ pool' = pool /\ call' = call /\ self' = self
       /\ store'.connection_pool = store.connection_pool
       /\ store'.op \in {"put_tensor", "remove_tensor"} =>
            /\ store'.edge_cache = store.edge_cache
            /\ store'.edge_attrs = store.edge_attrs
       /\ store'.op \in {"put_edge_index", "remove_edge_index"} =>
            /\ store'.tensor_cache = store.tensor_cache
            /\ store'.tensor_attrs = store.tensor_attrs]_vars

\* a store that has read from the remote graph, its last operation a write,
\* with a tensor and an edge index cached
C20_Witness ==
  /\ store.op = "put_edge_index" /\ store.outcome = "True"
  /\ store.remote > 0
  /\ store.tensor_cache # EmptyMap /\ store.edge_cache # EmptyMap

\* C21: a get on the store facade sends nothing to the remote graph: it
\* checks out no session and runs no query, whether or not the entry it
\* asks for was put before
C21_GetsLocal ==
  store.op \in {"get_tensor", "get_edge_index"} => store.sent = 0

(***************************************************************************)
(* Properties of the visited marking of find_paths_bfs.                    *)
(***************************************************************************)
NoRepeats(q) == \A i, j \in 1..Len(q) : q[i] = q[j] => i = j

\* C23: in one search, a path of more than 2 vertices is extended only by
\* a vertex not yet marked, and the extension marks it: every vertex is
\* appended as the 4th-or-later vertex of a path at most once, the start
\* vertex never, and every vertex so appended is in visited
C23_VisitedDiscipline ==
  (bfs.pc \in {"search", "done"} /\ bfs.start \in DOMAIN bfs.sg.vid_to_idx) =>
    /\ NoRepeats(bfs.st.late)
    /\ bfs.sg.vid_to_idx[bfs.start] \notin SeqRange(bfs.st.late)
    /\ SeqRange(bfs.st.late) \subseteq bfs.st.visited
    /\ \A k \in 1..Len(bfs.st.queue) :
         Len(bfs.st.queue[k].path) > 3 => bfs.st.queue[k].idx \in bfs.st.visited

\* a finished search that appended two vertices late and, under the
\* leniency for short paths, came back to the start as the third vertex
C23_Witness ==
  /\ bfs.pc = "done"
  /\ Len(bfs.st.late) >= 2
  /\ \E k \in 1..Len(bfs.st.paths) :
       Len(bfs.st.paths[k]) >= 4 /\ bfs.st.paths[k][3] = bfs.start

\* the indices a walk of at most k edges reaches from the index from
RECURSIVE WithinHops(_, _, _)
WithinHops(edge_index, from, k) ==
  IF k = 0 THEN {from}
  ELSE LET R == WithinHops(edge_index, from, k - 1)
       IN R \cup {edge_index[i][2] :
                    i \in {j \in 1..Len(edge_index) : edge_index[j][1] \in R}}

\* path is a walk of the adjacency of sg from start_entity to end_entity
IsWalk(sg, path, start_entity, end_entity) ==
  /\ path # <<>>
  /\ path[1] = start_entity /\ path[Len(path)] = end_entity
  /\ \A i \in 1..(Len(path) - 1) :
       <<sg.vid_to_idx[path[i]], sg.vid_to_idx[path[i + 1]]>>
         \in SeqRange(sg.edge_index)

\* C24: when a walk of at most max_hops edges leads from start to end,
\* find_paths_bfs returns at least one path, and the first one is a walk
\* from start to end that no other walk undercuts in length
C24_ShortestFirst ==
  (/\ bfs.pc = "done"
   /\ {bfs.start, bfs.end} \subseteq DOMAIN bfs.sg.vid_to_idx
   /\ bfs.sg.vid_to_idx[bfs.end]
        \in WithinHops(bfs.sg.edge_index, bfs.sg.vid_to_idx[bfs.start],
                       bfs.max_hops))
  => /\ bfs.st.paths # <<>>
     /\ IsWalk(bfs.sg, bfs.st.paths[1], bfs.start, bfs.end)
     /\ \A k \in 0..bfs.max_hops :
          bfs.sg.vid_to_idx[bfs.end]
              \in WithinHops(bfs.sg.edge_index, bfs.sg.vid_to_idx[bfs.start], k)
            => Len(bfs.st.paths[1]) <= k + 1

\* a finished search whose end vertex lies exactly three edges away, and
\* which marked another vertex before it reached the end
C24_Witness ==
  /\ bfs.pc = "done"
  /\ {bfs.start, bfs.end} \subseteq DOMAIN bfs.sg.vid_to_idx
  /\ bfs.sg.vid_to_idx[bfs.end]
       \notin WithinHops(bfs.sg.edge_index, bfs.sg.vid_to_idx[bfs.start], 2)
  /\ bfs.st.paths # <<>> /\ Len(bfs.st.paths[1]) = 4
  /\ Len(bfs.st.late) >= 2

\* C29: find_paths_bfs returns no path twice
C29_NoDuplicatePaths ==
  bfs.pc = "done" => NoRepeats(bfs.st.paths)

\* C30: in one search at most one of the paths found has more than 3
\* vertices, whatever max_hops and the subgraph
C30_OneLongPath ==
  bfs.pc \in {"search", "done"} =>
    Cardinality({k \in 1..Len(bfs.st.paths) : Len(bfs.st.paths[k]) > 3}) <= 1

\* a finished search that found a path of more than 3 vertices and shorter
\* ones, in a subgraph where two edges lead into the end vertex from
\* vertices other than the start
C30_Witness ==
  /\ bfs.pc = "done"
  /\ Len(bfs.st.paths) >= 2
  /\ \E k \in 1..Len(bfs.st.paths) : Len(bfs.st.paths[k]) > 3
  /\ {<<2, 1>>, <<3, 1>>} \subseteq SeqRange(bfs.sg.edge_index)

(***************************************************************************)
(* Properties of the results of find_multihop_relationships and of their  *)
(* conversion.                                                             *)
(***************************************************************************)
\* C25: a result with found = true holds at least one path
C25_FoundHasPath ==
  (mh.pc = "done" /\ mh.result.found) => mh.result.paths # <<>>

\* C27: the Data object built from A's subgraph carries the node types of
\* that subgraph, whatever the sampler sampled in between
C27_ConvertOwnTypes ==
  mh.pc = "converted" =>
    mh.pyg = ConvertToPygData([node_types |-> mh.sg_a.node_types], mh.sg_a)

\* C26: in every returned Subgraph center_node_idx is an index of
\* idx_to_vid, and the vertex at that index is the center
C26_CenterIndexValid ==
  \A t \in Threads :
    (Returned(t) /\ call[t].result.valid) =>
      LET r == call[t].result
      IN /\ r.center_node_idx < Len(r.idx_to_vid)
         /\ r.idx_to_vid[r.center_node_idx + 1] = call[t].center

(***************************************************************************)
(* Properties of the features handed to the embedding consumer.            *)
(***************************************************************************)
\* the feature of vertex v when its FETCH PROP ON player query has the
\* outcome ok: the stored embedding1, or 0 for a failed query, no row
\* (not a player) or an empty value
FetchedFeature(v, ok) ==
  IF ok /\ TypeOf(v) = "player" /\ RemoteHasEmbedding(v)
    THEN RemoteEmbedding(v) ELSE 0

\* C22: every vertex of the subgraph get_subgraph returns carries its
\* fetched embedding1 value, or 0.0 when the fetch failed, had no row or
\* had an empty value
C22_FeatureOrDefault ==
  n2t.last.kind = "subgraph" =>
    \A i \in 1..n2t.last.num_nodes :
      n2t.last.features[i] = FetchedFeature(n2t.last.node_ids[i], n2t.last.ok)

\* C28: in the result of get_subgraph the feature of row i was fetched for
\* node_ids[i], the vertex the sampled subgraph has at index i
C28_MappingConsistent ==
  n2t.last.kind = "subgraph" =>
    \A i \in 1..n2t.last.num_nodes : n2t.last.fetched[i] = n2t.last.node_ids[i]

====
